---- MODULE Spec2Model ----
(***************************************************************************)
(* Model of slideshow.py (gl-slideshow): main() as a single thread of      *)
(* control with a program counter, the GLFW/GL objects it creates, and the *)
(* environment it reads (directory listings, the wall clock time.time(),   *)
(* the window-close flag, shader compile/link status, image decoding).     *)
(*                                                                         *)
(* Time is counted in ticks of half a second, so pause_duration (1.0 s) is *)
(* 2 ticks and transition_duration (1.5 s) is 3 ticks.  A progress value   *)
(* elapsed / transition_duration is kept as its numerator over the         *)
(* denominator transition_duration: One stands for 1.0.  main() uses the   *)
(* clock only in differences time.time() - start_time, so clock values are *)
(* kept relative to the reading that set start_time last: that reading is  *)
(* the origin of the time axis until start_time is set again.              *)
(***************************************************************************)
EXTENDS Integers, Sequences, FiniteSets, TLC

\* ---- bounds of the model
MaxImages == 3
MaxTrans == 2
MaxCycles == 7
MaxClock == 6
MaxStep == 3
MaxBack == 1

\* ---- constants of main()
transition_duration == 3
pause_duration == 2

One == transition_duration

VARIABLES
    pc,               \* position of main()
    isdir,            \* os.path.isdir of the three folders
    image_files,      \* number of image files os.listdir finds
    glsl_files,       \* number of .glsl files os.listdir finds
    image_paths,      \* get_images(image_folder)
    transition_paths, \* get_transitions(shader_folder)
    glfw,             \* "uninit", "init" or "terminated"
    window,           \* TRUE once glfw.create_window returned a window
    close,            \* glfw.window_should_close(window)
    textures,         \* the preloaded texture names
    image_index,
    trans_index,
    tex1,
    tex2,
    fragment_path,
    program,          \* name of the program of the current cycle, 0 if none
    programs,         \* every program object created: its effect, its deletes
    live_shaders,     \* shader-stage objects created and not deleted
    clock,            \* the last value time.time() returned
    start_time,
    frame,            \* the last frame submitted by draw_transition
    full_frames,      \* frames with progress 1.0 in the current Transitioning phase
    prev,             \* the frame drawn before frame in the same Transitioning phase
    cycle,            \* iterations of the outer loop run to completion
    error             \* the exception that ended main(), "" if none

vars == <<pc, isdir, image_files, glsl_files, image_paths, transition_paths,
          glfw, window, close, textures, image_index, trans_index, tex1, tex2,
          fragment_path, program, programs, live_shaders, clock, start_time,
          frame, full_frames, prev, cycle, error>>

assets == <<isdir, image_files, glsl_files, image_paths, transition_paths>>
gpu == <<programs, live_shaders>>
indices == <<image_index, trans_index>>
picked == <<tex1, tex2, fragment_path>>
timing == <<clock, start_time>>
drawn == <<frame, full_frames, prev>>

Folders == {"image", "shader", "source"}

NoFrame == [phase |-> "none", cycle |-> 0, program |-> 0, effect |-> 0,
            tex1 |-> 0, tex2 |-> 0, progress |-> 0, live |-> TRUE,
            closed |-> FALSE, elapsed |-> 0, live_programs |-> {}]

Min(a, b) == IF a < b THEN a ELSE b

\* ---- the environment

\* time.time(): the next reading, given the last one.  The wall clock may
\* stand still between two calls and may be set back.
ClockReadings(c) ==
    {t \in (0 - MaxClock)..MaxClock : t - c \in (0 - MaxBack)..MaxStep}

\* a clock value on the time axis whose origin is the reading o
Since(t, o) == t - o

\* glfw.swap_buffers / glfw.poll_events and the window-system calls of window
\* creation deliver a pending close request; nothing ever clears the flag.
CloseAfterEvents(c) == IF c THEN {TRUE} ELSE {FALSE, TRUE}

\* ---- pure parts of the code

\* get_images: the sorted matching files, as their ranks 1..n
get_images(n) == [i \in 1..n |-> i]

\* get_transitions: the .glsl files in enumeration order, as effects 0..n-1
get_transitions(n) == [i \in 1..n |-> i - 1]

\* bug: the effect index is never advanced
NextTransIndexSame(i, n) == i % n

\* bug: the effect index stops at the last effect instead of wrapping
NextTransIndexSaturating(i, n) == IF i + 1 < n THEN i + 1 ELSE i

NextTransIndex(i, n) == (i + 1) % n

\* bug: the image index is not wrapped
NextImageIndexNoWrap(i, n) == i + 1

\* bug: the image index wraps one image early
NextImageIndexShort(i, n) == (i + 1) % (n - 1)

NextImageIndex(i, n) == (i + 1) % n

\* bug: the "to" index is clamped to the last image instead of wrapping
ToIndexClamped(i, n) == Min(i + 1, n - 1)

ToIndex(i, n) == (i + 1) % n

\* bug: the min with 1.0 is missing
ProgressUnclamped(elapsed) == elapsed

\* bug: floor division, elapsed // transition_duration
ProgressFloored(elapsed) == IF elapsed >= One THEN One ELSE 0

\* min(elapsed / transition_duration, 1.0)
Progress(elapsed) == Min(elapsed, One)

OuterCond(c) == ~c

\* bug: the operands of the subtraction are swapped
HoldCondSwapped(t, start, c) == start - t < pause_duration /\ ~c

\* bug: the hold ends one tick early
HoldCondEarly(t, start, c) == t - start < pause_duration - 1 /\ ~c

HoldCond(t, start, c) == t - start < pause_duration /\ ~c

\* bug: the transition loop does not test the close flag
TransCondAlways(c) == TRUE

TransCond(c) == ~c

\* bug: > instead of >=
TransDoneStrict(progress) == progress > One

TransDone(progress) == progress >= One

\* bug: the program is never deleted
DeleteProgramNever(progs, h) == progs

\* bug: the program is deleted twice
DeleteProgramTwice(progs, h) ==
    [progs EXCEPT ![h].deletes = progs[h].deletes + 2]

\* glDeleteProgram(program)
DeleteProgram(progs, h) ==
    [progs EXCEPT ![h].deletes = progs[h].deletes + 1]

\* the program objects created and not deleted
LivePrograms(progs) == {h \in 1..Len(progs) : progs[h].deletes = 0}

\* draw_transition(window, program, tex1, tex2, progress), with the clock
\* reading (since start_time) the frame was computed from
DrawFrame(phase, p, e) ==
    [phase |-> phase, cycle |-> cycle, program |-> program,
     effect |-> programs[program].effect, tex1 |-> tex1, tex2 |-> tex2,
     progress |-> p, live |-> programs[program].deletes = 0,
     closed |-> close, elapsed |-> e, live_programs |-> LivePrograms(programs)]

\* ---- initial state: main() is entered

Init ==
    /\ pc = "main"
    /\ isdir \in [Folders -> BOOLEAN]
    /\ image_files \in 0..MaxImages
    /\ glsl_files \in 0..MaxTrans
    /\ image_paths = <<>>
    /\ transition_paths = <<>>
    /\ glfw = "uninit"
    /\ window = FALSE
    /\ close = FALSE
    /\ textures = <<>>
    /\ image_index = 0
    /\ trans_index = 0
    /\ tex1 = 0
    /\ tex2 = 0
    /\ fragment_path = 0
    /\ program = 0
    /\ programs = <<>>
    /\ live_shaders = 0
    /\ clock = 0
    /\ start_time = 0
    /\ frame = NoFrame
    /\ full_frames = 0
    /\ prev = NoFrame
    /\ cycle = 0
    /\ error = ""

ShaderErrors == {"vertex shader compile error", "fragment shader compile error",
                 "program link error"}

\* bug: a shader failure is caught and the loop goes on with the next cycle
RaiseSwallowed(e) ==
    /\ pc' = IF e \in ShaderErrors THEN "loop" ELSE "raised"
    /\ error' = e

\* ---- an uncaught exception leaves main()

Raise(e) ==
    /\ pc' = "raised"
    /\ error' = e

\* bug: a single image is accepted
TooFewImagesOne(n) == n < 1

\* get_images: fewer than 2 matching files
TooFewImages(n) == n < 2

\* get_transitions: no .glsl file
NoTransitions(n) == n = 0

DiscoveryErrors == {"invalid image folder", "invalid shader folder",
                    "invalid source folder", "not enough images",
                    "no transitions"}

\* ---- lines 89-103: folders, asset discovery, fixed shader sources

Discover ==
    /\ pc = "main"
    /\ IF ~isdir["image"] THEN
            Raise("invalid image folder") /\ UNCHANGED <<image_paths, transition_paths>>
       ELSE IF ~isdir["shader"] THEN
            Raise("invalid shader folder") /\ UNCHANGED <<image_paths, transition_paths>>
       ELSE IF ~isdir["source"] THEN
            Raise("invalid source folder") /\ UNCHANGED <<image_paths, transition_paths>>
       ELSE IF TooFewImages(image_files) THEN
            Raise("not enough images") /\ UNCHANGED <<image_paths, transition_paths>>
       ELSE IF NoTransitions(glsl_files) THEN
            /\ Raise("no transitions")
            /\ image_paths' = get_images(image_files)
            /\ UNCHANGED transition_paths
       ELSE
            /\ image_paths' = get_images(image_files)
            /\ transition_paths' = get_transitions(glsl_files)
            /\ pc' = "glfw_init"
            /\ UNCHANGED error
    /\ UNCHANGED <<isdir, image_files, glsl_files, glfw, window, close, textures,
                   indices, picked, program, gpu, timing, drawn, cycle>>

\* ---- lines 105-106: glfw.init()

GlfwInit ==
    /\ pc = "glfw_init"
    /\ \E ok \in BOOLEAN :
         IF ok THEN glfw' = "init" /\ pc' = "create_window" /\ UNCHANGED error
         ELSE Raise("glfw can not be initialized") /\ UNCHANGED glfw
    /\ UNCHANGED <<assets, window, close, textures, indices, picked, program,
                   gpu, timing, drawn, cycle>>

\* ---- lines 108-129: the fullscreen window, its context, the quad buffer

CreateWindow ==
    /\ pc = "create_window"
    /\ \E ok \in BOOLEAN :
         IF ok THEN
            /\ window' = TRUE
            /\ close' \in CloseAfterEvents(close)
            /\ pc' = "preload"
            /\ UNCHANGED <<glfw, error>>
         ELSE
            /\ glfw' = "terminated"
            /\ Raise("glfw window can not be created")
            /\ UNCHANGED <<window, close>>
    /\ UNCHANGED <<assets, textures, indices, picked, program, gpu, timing,
                   drawn, cycle>>

\* ---- line 132: one load_texture(p) of the list comprehension

LoadTexture ==
    /\ pc = "preload"
    /\ Len(textures) < Len(image_paths)
    /\ \E ok \in BOOLEAN :
         IF ok THEN
            /\ textures' = Append(textures, Len(textures) + 1)
            /\ UNCHANGED <<pc, error>>
         ELSE
            /\ Raise("image decode error")
            /\ UNCHANGED textures
    /\ UNCHANGED <<assets, glfw, window, close, indices, picked, program, gpu,
                   timing, drawn, cycle>>

\* ---- lines 132-136: the texture list is complete, both indices start at 0

PreloadDone ==
    /\ pc = "preload"
    /\ Len(textures) = Len(image_paths)
    /\ image_index' = 0
    /\ trans_index' = 0
    /\ pc' = "loop"
    /\ UNCHANGED <<assets, glfw, window, close, textures, picked, program, gpu,
                   timing, drawn, cycle, error>>

\* ---- line 138: while not glfw.window_should_close(window)

LoopTest ==
    /\ pc = "loop"
    /\ IF OuterCond(close) THEN cycle < MaxCycles /\ pc' = "select"
       ELSE pc' = "terminate"
    /\ UNCHANGED <<assets, glfw, window, close, textures, indices, picked,
                   program, gpu, timing, drawn, cycle, error>>

\* ---- lines 139-145: the image pair and the effect of this cycle

Select ==
    /\ pc = "select"
    /\ tex1' = textures[image_index + 1]
    /\ tex2' = textures[ToIndex(image_index, Len(textures)) + 1]
    /\ fragment_path' = transition_paths[trans_index + 1]
    /\ trans_index' = NextTransIndex(trans_index, Len(transition_paths))
    /\ pc' = "compile"
    /\ UNCHANGED <<assets, glfw, window, close, textures, image_index, program,
                   gpu, timing, drawn, cycle, error>>

\* ---- line 147: create_program(vertex_src, fragment_src), lines 38-49

CreateProgram ==
    /\ pc = "compile"
    /\ \E outcome \in {"ok", "vertex", "fragment", "link"} :
         CASE outcome = "vertex" ->
                /\ live_shaders' = live_shaders + 1
                /\ Raise("vertex shader compile error")
                /\ UNCHANGED <<program, programs>>
           [] outcome = "fragment" ->
                /\ live_shaders' = live_shaders + 2
                /\ Raise("fragment shader compile error")
                /\ UNCHANGED <<program, programs>>
           [] outcome = "link" ->
                /\ live_shaders' = live_shaders + 2
                /\ programs' = Append(programs,
                       [effect |-> fragment_path, deletes |-> 0, linked |-> FALSE])
                /\ Raise("program link error")
                /\ UNCHANGED program
           [] outcome = "ok" ->
                /\ programs' = Append(programs,
                       [effect |-> fragment_path, deletes |-> 0, linked |-> TRUE])
                /\ program' = Len(programs) + 1
                /\ pc' = "bind"
                /\ UNCHANGED <<live_shaders, error>>
    /\ UNCHANGED <<assets, glfw, window, close, textures, indices, picked,
                   timing, drawn, cycle>>

\* ---- lines 149-158: attribute and sampler bindings, the hold starts

HoldStart ==
    /\ pc = "bind"
    /\ \E t \in ClockReadings(clock) :
         /\ clock' = Since(t, t)
         /\ start_time' = Since(t, t)
    /\ pc' = "hold"
    /\ UNCHANGED <<assets, glfw, window, close, textures, indices, picked,
                   program, gpu, drawn, cycle, error>>

\* ---- line 159: the test of the hold loop

HoldTest ==
    /\ pc = "hold"
    /\ \E t \in ClockReadings(clock) :
         /\ clock' = t
         /\ pc' = IF HoldCond(t, start_time, close) THEN "hold_draw"
                  ELSE "trans_start"
    /\ UNCHANGED <<assets, glfw, window, close, textures, indices, picked,
                   program, gpu, start_time, drawn, cycle, error>>

\* ---- line 160: draw_transition(window, program, tex1, tex2, 0.0)

HoldDraw ==
    /\ pc = "hold_draw"
    /\ frame' = DrawFrame("hold", 0, clock - start_time)
    /\ close' \in CloseAfterEvents(close)
    /\ pc' = "hold"
    /\ UNCHANGED <<assets, glfw, window, textures, indices, picked, program,
                   gpu, timing, full_frames, prev, cycle, error>>

\* ---- lines 163-164: the transition starts

TransStart ==
    /\ pc = "trans_start"
    /\ \E t \in ClockReadings(clock) :
         /\ clock' = Since(t, t)
         /\ start_time' = Since(t, t)
    /\ full_frames' = 0
    /\ prev' = NoFrame
    /\ pc' = "trans"
    /\ UNCHANGED <<assets, glfw, window, close, textures, indices, picked,
                   program, gpu, frame, cycle, error>>

\* ---- line 165: the test of the transition loop

TransTest ==
    /\ pc = "trans"
    /\ pc' = IF TransCond(close) THEN "trans_draw" ELSE "advance"
    /\ UNCHANGED <<assets, glfw, window, close, textures, indices, picked,
                   program, gpu, timing, drawn, cycle, error>>

\* ---- lines 166-171: one frame of the transition

TransDraw ==
    /\ pc = "trans_draw"
    /\ \E t \in ClockReadings(clock) :
         LET progress == Progress(t - start_time) IN
         /\ clock' = t
         /\ frame' = DrawFrame("trans", progress, t - start_time)
         /\ prev' = IF frame.phase = "trans" /\ frame.cycle = cycle THEN frame
                    ELSE NoFrame
         /\ full_frames' = IF progress = One THEN full_frames + 1 ELSE full_frames
         /\ pc' = IF TransDone(progress) THEN "advance" ELSE "trans"
    /\ close' \in CloseAfterEvents(close)
    /\ UNCHANGED <<assets, glfw, window, textures, indices, picked, program,
                   gpu, start_time, cycle, error>>

\* ---- lines 173-177: the cycle ends

Advance ==
    /\ pc = "advance"
    /\ image_index' = NextImageIndex(image_index, Len(textures))
    /\ programs' = DeleteProgram(programs, program)
    /\ cycle' = cycle + 1
    /\ pc' = "loop"
    /\ UNCHANGED <<assets, glfw, window, close, textures, trans_index, picked,
                   program, live_shaders, timing, drawn, error>>

\* ---- line 179: glfw.terminate()

Terminate ==
    /\ pc = "terminate"
    /\ glfw' = "terminated"
    /\ pc' = "returned"
    /\ UNCHANGED <<assets, window, close, textures, indices, picked, program,
                   gpu, timing, drawn, cycle, error>>

Next ==
    \/ Discover
    \/ GlfwInit
    \/ CreateWindow
    \/ LoadTexture
    \/ PreloadDone
    \/ LoopTest
    \/ Select
    \/ CreateProgram
    \/ HoldStart
    \/ HoldTest
    \/ HoldDraw
    \/ TransStart
    \/ TransTest
    \/ TransDraw
    \/ Advance
    \/ Terminate

Spec == Init /\ [][Next]_vars

\* The single thread of main() keeps running until it returns or raises.
FairSpec == Spec /\ WF_vars(Next)

\* ---- the unbounded run.  The same steps, for runs of any length: the outer
\* loop is entered without the bound on the number of cycles, completed cycles
\* are counted modulo the period of the rotation, and a deleted program is
\* dropped from the record of programs.  The clock keeps advancing: a reading
\* is never below the one before it in a phase, and it does not stand still
\* for ever.

LiveLoopTest ==
    /\ pc = "loop"
    /\ pc' = IF OuterCond(close) THEN "select" ELSE "terminate"
    /\ UNCHANGED <<assets, glfw, window, close, textures, indices, picked,
                   program, gpu, timing, drawn, cycle, error>>

LiveHoldTest == HoldTest /\ clock' >= clock

LiveTransDraw == TransDraw /\ clock' >= clock

LiveAdvance ==
    /\ pc = "advance"
    /\ image_index' = NextImageIndex(image_index, Len(textures))
    /\ programs' = SelectSeq(DeleteProgram(programs, program),
                             LAMBDA r : r.deletes = 0)
    /\ cycle' = (cycle + 1) % (Len(textures) * Len(transition_paths))
    /\ pc' = "loop"
    /\ UNCHANGED <<assets, glfw, window, close, textures, trans_index, picked,
                   program, live_shaders, timing, drawn, error>>

\* a clock reading above the one before it
Tick == (HoldTest \/ TransDraw) /\ clock' > clock

LiveNext ==
    \/ Discover
    \/ GlfwInit
    \/ CreateWindow
    \/ LoadTexture
    \/ PreloadDone
    \/ LiveLoopTest
    \/ Select
    \/ CreateProgram
    \/ HoldStart
    \/ LiveHoldTest
    \/ HoldDraw
    \/ TransStart
    \/ TransTest
    \/ LiveTransDraw
    \/ LiveAdvance
    \/ Terminate

\* main() keeps running, and the clock keeps advancing
LiveSpec == Init /\ [][LiveNext]_vars /\ WF_vars(LiveNext) /\ SF_vars(Tick)

\* ---- vocabulary of the claims

M == Len(textures)
N == Len(transition_paths)

\* positions of one iteration of the outer loop, from its first statement to
\* the last frame of its Transitioning phase
CyclePcs == {"select", "compile", "bind", "hold", "hold_draw", "trans_start",
             "trans", "trans_draw"}

\* positions inside the outer loop, its test included
LoopPcs == CyclePcs \cup {"loop", "advance"}

Drawn == frame.phase # "none"

\* what a frame played: the "from" texture, the "to" texture, the effect
Played(f) == <<f.tex1, f.tex2, f.effect>>

\* ---- C1: after K completed iterations of the outer loop, image_index is
\* K mod M and trans_index is K mod N, for every M >= 2 and N >= 1.
C1_IndicesAfterKCycles ==
    pc \in {"loop", "terminate", "returned"} =>
        /\ image_index = cycle % M
        /\ trans_index = cycle % N

C1_Witness ==
    /\ pc = "loop"
    /\ M = 3
    /\ N = 2
    /\ cycle = 5
    /\ image_index = 2
    /\ trans_index = 1

\* ---- C2: every frame of cycle K, Holding or Transitioning, has texture
\* K mod M on unit 0 and texture (K+1) mod M on unit 1, and is drawn with the
\* program built from effect K mod N.
C2_FramePairAndEffect ==
    Drawn =>
        /\ frame.tex1 = textures[(frame.cycle % M) + 1]
        /\ frame.tex2 = textures[((frame.cycle + 1) % M) + 1]
        /\ frame.effect = transition_paths[(frame.cycle % N) + 1]
        /\ programs[frame.program].effect = frame.effect

C2_Witness ==
    /\ frame.phase = "hold"
    /\ frame.cycle = 5
    /\ M = 3
    /\ N = 2
    /\ Played(frame) = <<3, 1, 1>>

\* ---- C3 as stated: with images a, b, c (textures 1, 2, 3) and effects fade,
\* wipe (0, 1), cycle 0 plays (a to b, fade), cycle 1 (b to c, wipe), cycle 2
\* (c to a, fade), and cycle 3 plays what cycle 0 played.
C3_Cycle3RepeatsCycle0 ==
    (Drawn /\ M = 3 /\ N = 2) =>
        /\ frame.cycle = 0 => Played(frame) = <<1, 2, 0>>
        /\ frame.cycle = 1 => Played(frame) = <<2, 3, 1>>
        /\ frame.cycle = 2 => Played(frame) = <<3, 1, 0>>
        /\ frame.cycle = 3 => Played(frame) = <<1, 2, 0>>

\* ---- C3 amended: cycles 0, 1, 2 as stated; cycle 3 plays cycle 0's image
\* pair with the other effect (a to b, wipe); cycle 6 is the first to play
\* cycle 0's (pair, effect) combination again.
C3_ScenarioThreeImagesTwoEffects ==
    (Drawn /\ M = 3 /\ N = 2) =>
        /\ frame.cycle = 0 => Played(frame) = <<1, 2, 0>>
        /\ frame.cycle = 1 => Played(frame) = <<2, 3, 1>>
        /\ frame.cycle = 2 => Played(frame) = <<3, 1, 0>>
        /\ frame.cycle = 3 => Played(frame) = <<1, 2, 1>>
        /\ frame.cycle \in 1..5 => Played(frame) # <<1, 2, 0>>
        /\ frame.cycle = 6 => Played(frame) = <<1, 2, 0>>

C3_Witness ==
    /\ M = 3
    /\ N = 2
    /\ frame.phase = "trans"
    /\ frame.cycle = 6
    /\ ~close

\* ---- C4 as stated: from the start of a cycle until the end of its
\* Transitioning phase neither image_index nor trans_index changes.
C4_NoIndexChangesInCycle ==
    [][(pc \in CyclePcs) => (image_index' = image_index /\ trans_index' = trans_index)]_vars

\* ---- C4 amended: image_index changes only after the Transitioning phase of
\* the cycle; trans_index is advanced by the first step of the cycle, once the
\* cycle's effect has been read, and not again in that cycle: the compile and
\* all frames of cycle K see image_index = K mod M, trans_index = (K+1) mod N
\* and the effect of index K mod N.
C4_IndicesWithinCycle ==
    /\ pc = "select" => (image_index = cycle % M /\ trans_index = cycle % N)
    /\ pc \in (CyclePcs \ {"select"}) \cup {"advance"} =>
          /\ image_index = cycle % M
          /\ trans_index = (cycle + 1) % N
          /\ fragment_path = transition_paths[(cycle % N) + 1]

C4_Witness ==
    /\ pc = "trans_draw"
    /\ N = 2
    /\ cycle = 2
    /\ trans_index = 1
    /\ image_index = 2

Programs == 1..Len(programs)

\* ---- C5: every program a successful create_program returned is deleted
\* exactly once, before the next create_program, and no frame is drawn with a
\* deleted program.  (A program is identified by its creation, not by the
\* name GL gave it.)
C5_OneDeletePerProgram ==
    /\ \A h \in Programs : programs[h].deletes <= 1
    /\ \A h \in Programs :
          (/\ programs[h].linked
           /\ \/ h < Len(programs)
              \/ pc \in {"loop", "select", "compile", "terminate", "returned"})
          => programs[h].deletes = 1
    /\ pc \in (CyclePcs \ {"select", "compile"}) \cup {"advance"} =>
          (program = Len(programs) /\ programs[program].deletes = 0)
    /\ Drawn => frame.live

C5_Witness ==
    /\ pc = "hold_draw"
    /\ Len(programs) = 3
    /\ program = 3
    /\ frame.program = 2
    /\ programs[1].deletes = 1
    /\ programs[2].deletes = 1

\* ---- C6 as stated: a Transitioning phase ends only after a frame with
\* progress 1.0, which is the last frame of the phase and the only such frame.
C6_PhaseEndsAtFullProgress ==
    pc = "advance" =>
        /\ frame.phase = "trans"
        /\ frame.cycle = cycle
        /\ frame.progress = One
        /\ full_frames = 1

\* ---- C6 amended: a Transitioning phase that ends with the close flag still
\* false ends only after exactly one frame with progress 1.0; in every
\* Transitioning phase a frame with progress 1.0 is the last frame of the
\* phase and at most one is drawn.
C6_FullProgressEndsPhase ==
    /\ full_frames <= 1
    /\ pc \in {"trans", "trans_draw"} => full_frames = 0
    /\ (pc = "advance" /\ full_frames = 1) =>
          (frame.phase = "trans" /\ frame.cycle = cycle /\ frame.progress = One)
    /\ (pc = "advance" /\ ~close) =>
          /\ frame.phase = "trans"
          /\ frame.cycle = cycle
          /\ frame.progress = One
          /\ full_frames = 1

C6_Witness ==
    /\ pc = "advance"
    /\ ~close
    /\ cycle = 1
    /\ frame.phase = "trans"
    /\ frame.progress = One
    /\ full_frames = 1
    /\ clock - start_time > transition_duration

\* a step taken with the close flag up draws no frame and creates no program
C7_NoWorkAfterClose ==
    (close \/ frame.closed) =>
        (frame' = frame /\ Len(programs') = Len(programs))

\* ---- C7: once the close flag is true no frame is drawn and no program is
\* compiled any more, because the flag is tested before every frame of either
\* phase and before every cycle, and the run reaches glfw.terminate().
C7_CloseLeadsToTerminate ==
    /\ [](close => pc \notin {"select", "compile", "bind", "hold_draw", "trans_draw"})
    /\ [](~frame.closed)
    /\ [][C7_NoWorkAfterClose]_vars
    /\ (close /\ pc \in LoopPcs) ~> (pc = "returned" /\ glfw = "terminated")

C7_Witness ==
    /\ close
    /\ pc = "returned"
    /\ glfw = "terminated"
    /\ frame.phase = "trans"
    /\ frame.progress = 1
    /\ frame.cycle = 1

\* ---- C8: when the run ends by window-close no program is left live at
\* glfw.terminate(): none was compiled if the flag was true at the first test
\* of the outer loop, and otherwise every program, the one of the cycle the
\* flag came up in included, was deleted exactly once.
C8_NoLiveProgramAtTerminate ==
    pc \in {"terminate", "returned"} =>
        /\ close
        /\ Len(programs) = cycle
        /\ \A h \in Programs : programs[h].linked /\ programs[h].deletes = 1
        /\ cycle = 0 => ~Drawn

C8_Witness ==
    /\ pc = "terminate"
    /\ frame.phase = "hold"
    /\ frame.cycle = 1
    /\ cycle = 2
    /\ Len(programs) = 2
    /\ programs[2].deletes = 1

\* ---- C9: on every exit of main() after glfw.init succeeded, by window-close
\* or by an error, glfw.terminate() has been executed.
C9_TerminateOnEveryExit ==
    (pc \in {"returned", "raised"} /\ glfw # "uninit") => glfw = "terminated"

\* the state a shader failure leaves: main() is left, the cycle drew nothing
C10_AfterShaderError ==
    error \in ShaderErrors =>
        /\ pc = "raised"
        /\ Drawn => frame.cycle < cycle
        /\ image_index = cycle % M
        /\ trans_index = (cycle + 1) % N
        /\ \A h \in Programs : h < Len(programs) => programs[h].linked
        /\ Len(programs) \in {cycle, cycle + 1}

\* ---- C10: a shader compile or link failure in create_program is fatal: it
\* ends main() at once, no frame of the cycle it happened in is drawn, both
\* indices stay as they were, no later cycle starts and nothing is compiled
\* again (no step follows the failure).
C10_ShaderErrorIsFatal ==
    /\ []C10_AfterShaderError
    /\ [][error \notin ShaderErrors]_vars

C10_Witness ==
    /\ pc = "raised"
    /\ error = "program link error"
    /\ cycle = 2
    /\ Len(programs) = 3
    /\ frame.cycle = 1

\* frame and prev are two successive frames of one Transitioning phase
Successive == frame.phase = "trans" /\ prev.phase = "trans"

\* ---- C11: within one Transitioning phase a frame whose clock reading is not
\* below the reading of the frame before it has a progress not below that
\* frame's progress, and no progress exceeds 1.0.
C11_ProgressNonDecreasing ==
    /\ Drawn => frame.progress <= One
    /\ prev.progress <= One
    /\ (Successive /\ frame.elapsed >= prev.elapsed) =>
          frame.progress >= prev.progress

C11_Witness ==
    /\ Successive
    /\ prev.elapsed = 2
    /\ prev.progress = 2
    /\ frame.elapsed = 5
    /\ frame.progress = One

\* ---- C12: every frame draw_transition submits, in either phase and for
\* every value time.time() returns, carries a progress in [0.0, 1.0].
C12_ProgressInUnitInterval ==
    Drawn => (0 <= frame.progress /\ frame.progress <= One)

\* ---- C13 as stated: within one Transitioning phase each frame's progress is
\* strictly greater than the progress of the frame before it.  Stated for the
\* frames whose clock reading is not below that of the frame before, so that
\* a clock set back is not what refutes it.
C13_ProgressStrictlyIncreasing ==
    (Successive /\ frame.elapsed >= prev.elapsed) =>
        frame.progress > prev.progress

\* ---- C13 amended: within one Transitioning phase the progress of two
\* successive frames is ordered as their clock readings are: strictly greater
\* when the reading is greater, equal when the two readings are equal, smaller
\* when the reading is smaller; the earlier frame's progress is below 1.0.
C13_ProgressOrderedAsClock ==
    Successive =>
        /\ prev.progress < One
        /\ frame.elapsed > prev.elapsed => frame.progress > prev.progress
        /\ frame.elapsed = prev.elapsed => frame.progress = prev.progress
        /\ frame.elapsed < prev.elapsed => frame.progress < prev.progress

C13_Witness ==
    /\ Successive
    /\ prev.elapsed = 1
    /\ frame.elapsed = 1
    /\ frame.progress = 1
    /\ prev.progress = 1

\* ---- C14: at most one program object is live in any state; every frame is
\* drawn with exactly one live, the one compiled in the frame's own cycle, and
\* that program is deleted once the cycle is over.
C14_OneLiveProgram ==
    /\ Cardinality(LivePrograms(programs)) <= 1
    /\ Drawn =>
          /\ frame.live_programs = {frame.program}
          /\ frame.program = frame.cycle + 1
          /\ frame.cycle < cycle => frame.program \notin LivePrograms(programs)

C14_Witness ==
    /\ pc = "trans"
    /\ cycle = 2
    /\ frame.phase = "trans"
    /\ frame.cycle = 2
    /\ LivePrograms(programs) = {3}
    /\ frame.live_programs = {3}

\* ---- C15: a missing folder, fewer than 2 images or no .glsl file raises an
\* error before glfw.init: no window is created, no texture loaded, no program
\* compiled and no frame drawn.
C15_DiscoveryFailureIsFatal ==
    LET failing == \/ \E f \in Folders : ~isdir[f]
                   \/ image_files < 2
                   \/ glsl_files = 0
    IN  /\ (failing /\ pc # "main") => (pc = "raised" /\ error \in DiscoveryErrors)
        /\ error \in DiscoveryErrors =>
              /\ failing
              /\ pc = "raised"
              /\ glfw = "uninit"
              /\ ~window
              /\ textures = <<>>
              /\ programs = <<>>
              /\ live_shaders = 0
              /\ ~Drawn

C15_Witness ==
    /\ pc = "raised"
    /\ error = "not enough images"
    /\ image_files = 1
    /\ glsl_files = 2
    /\ \A f \in Folders : isdir[f]
    /\ glfw = "uninit"

\* ---- C16: when the render loop runs, each of the M images has been loaded
\* into one texture, the texture list stays as the preload left it, and
\* 0 <= image_index < M and 0 <= trans_index < N, so the two textures and the
\* effect of a cycle exist.
C16_TexturesAndIndicesValid ==
    pc \in LoopPcs \cup {"terminate", "returned"} =>
        /\ M = image_files
        /\ N = glsl_files
        /\ textures = [i \in 1..image_files |-> i]
        /\ image_index \in 0..(M - 1)
        /\ (image_index + 1) % M \in 0..(M - 1)
        /\ trans_index \in 0..(N - 1)
        /\ pc \in (CyclePcs \ {"select"}) \cup {"advance"} =>
              /\ \E i \in 1..M : textures[i] = tex1
              /\ \E i \in 1..M : textures[i] = tex2
              /\ \E i \in 1..N : transition_paths[i] = fragment_path

C16_Witness ==
    /\ pc = "hold_draw"
    /\ M = 3
    /\ N = 2
    /\ image_index = 2
    /\ tex1 = 3
    /\ tex2 = 1
    /\ cycle = 5

\* ---- C17: every Holding frame has progress 0.0, the Holding frames of a
\* cycle come before its Transitioning frames, and unless the close flag is up
\* the Transitioning phase starts only after a clock reading at least
\* pause_duration past the one taken at hold entry.
C17_HoldThenTransition ==
    /\ frame.phase = "hold" => (frame.progress = 0 /\ frame.elapsed < pause_duration)
    /\ (pc \in {"bind", "hold", "hold_draw"} /\ Drawn /\ frame.cycle = cycle) =>
          frame.phase = "hold"
    /\ (pc = "trans_start" /\ ~close) => clock - start_time >= pause_duration

C17_Witness ==
    /\ pc = "trans_start"
    /\ ~close
    /\ clock - start_time = pause_duration
    /\ frame.phase = "hold"
    /\ frame.cycle = cycle
    /\ frame.elapsed = 1

\* ---- C18: if the close flag never comes up, no error occurs and the clock
\* keeps advancing, every Holding and every Transitioning phase ends, the
\* outer loop is never left, and every image index below M and every effect
\* index below N starts a cycle again and again; if the flag does come up, the
\* run reaches glfw.terminate().
C18_RunsUntilClosed ==
    /\ ([](~close) /\ [](error = "")) =>
          /\ (pc \in {"hold", "hold_draw"}) ~> (pc = "trans_start")
          /\ (pc \in {"trans", "trans_draw"}) ~> (pc = "advance")
          /\ [](pc \notin {"terminate", "returned"})
          /\ \A i \in 0..(MaxImages - 1) :
                (i < image_files) => []<>(pc = "select" /\ image_index = i)
          /\ \A j \in 0..(MaxTrans - 1) :
                (j < glsl_files) => []<>(pc = "select" /\ trans_index = j)
    /\ [](error = "") => (close ~> (pc = "returned" /\ glfw = "terminated"))

C18_Witness ==
    /\ pc = "select"
    /\ ~close
    /\ error = ""
    /\ M = 3
    /\ N = 2
    /\ image_index = 0
    /\ trans_index = 0
    /\ cycle = 0
    /\ frame.phase = "trans"
    /\ frame.cycle = 5
    /\ frame.progress = One

\* ---- C19: whenever create_program has finished, by returning or by raising,
\* no shader-stage object it created is live, and after a raise no program
\* object it created is live; a program is retained only on success.
C19_CreateProgramLeavesNoObject ==
    /\ live_shaders = 0
    /\ error \in ShaderErrors => LivePrograms(programs) = {}
    /\ pc = "bind" =>
          (program \in LivePrograms(programs) /\ programs[program].linked)

====
